---- MODULE Spec2Model ----
(***************************************************************************)
(* A model of the maze of src/src/main.rs: the cell matrix with its        *)
(* constructors and start validation, the recursive depth-first search     *)
(* solve_from with its visited mask, set_start and the text rendering.     *)
(*                                                                         *)
(* Coordinates are 0-based as in the source; sequences are 1-based, so the *)
(* cell (x, y) of a matrix m is m[y + 1][x + 1].  An Option is a sequence  *)
(* of length 0 (None) or 1 (Some).  A Result is a record with field ok.    *)
(***************************************************************************)
EXTENDS Integers, Sequences, FiniteSets, TLC

\* ---------------------------------------------------------------- bounds
\* Largest width and height of the matrices the solver is started on.
MaxWidth == 4
MaxHeight == 4
\* Most cells (width * height) of such a matrix.
MaxCells == 16
\* Most floor cells on the outer edge of such a matrix; the cells inside are
\* floor or wall without restriction.
MaxExits == 1
\* Most entries other than the wall in a raw input the constructors are
\* tried on.
CtorMaxOpen == 2

\* ------------------------------------------------------ program constants
\* main.rs:83  height < 3 || width < 3  is too small
MinDim == 3

\* usize::MAX, the value x.wrapping_sub(1) takes at x = 0 (main.rs:173,175).
\* TLC's integers are 32 bits wide, so the model uses the largest of them;
\* all that the code depends on is that it is no index of any matrix.
UsizeMax == (1073741823 * 2) + 1

VARIABLES
    map,        \* Maze.map: the rows of cells
    width,      \* Maze.width
    height,     \* Maze.height
    start_x,    \* Maze.start_x
    start_y,    \* Maze.start_y
    visited,    \* Maze.visited: Option of a matrix of booleans
    alive,      \* TRUE while the caller owns a Maze value
    status,     \* the Ok/Err outcome of the last constructor or set_start
    ctor,       \* the constructor the Maze was built with
    stack,      \* the active solve_from calls that are inside their for loop
    ret,        \* the value the callee has just returned to the top call
    pc,         \* "ready": no solve in progress; "solve_from": inside solve()
    result,     \* what the last solve() returned ("none" before it returns)
    pre,        \* the Maze's fields on entry to the pending or last solve()
                \* (the current fields while none has run since set_start)
    route,      \* the chain of solve_from calls at the moment the edge is found
    passes      \* per cell: how often line 163 ran in the pending or last solve()

vars == <<map, width, height, start_x, start_y, visited, alive, status, ctor,
          stack, ret, pc, result, pre, route, passes>>

\* ------------------------------------------------------------ cell values
\* MazeCell::Wall and MazeCell::Floor(FloorType::{Floor, Start, Path})
Wall == "Wall"
FloorPlain == "Floor(Floor)"
FloorStart == "Floor(Start)"
FloorPath == "Floor(Path)"
MazeCell == {Wall, FloorPlain, FloorStart, FloorPath}

None == <<>>
Some(v) == <<v>>

Ok(v) == [ok |-> TRUE, val |-> v]
Err(e) == [ok |-> FALSE, err |-> e]

\* main.rs:42-50 (the symbols are named, not drawn)
FloorType_as_char(cell) ==
    CASE cell = FloorPlain -> "black_square"
      [] cell = FloorStart -> "cross_mark"
      [] cell = FloorPath -> "footprints"

\* main.rs:15-22
as_char(cell) ==
    IF cell = Wall THEN "white_square" ELSE FloorType_as_char(cell)

\* main.rs:25-31
from_bool(value) == IF value THEN FloorPlain ELSE Wall

\* slice.get(y).and_then(|row| row.get(x))
Get2(m, x, y) ==
    IF y < Len(m)
    THEN IF x < Len(m[y + 1]) THEN Some(m[y + 1][x + 1]) ELSE None
    ELSE None

Set2(m, x, y, v) == [m EXCEPT ![y + 1][x + 1] = v]

\* resize as a bug would have it: a short row is left short.
resize_NoPad(row, w) ==
    [i \in 1..(IF Len(row) < w THEN Len(row) ELSE w) |-> row[i]]

\* Vec::resize(width, MazeCell::default()): truncate or pad with Wall
resize(row, w) ==
    [i \in 1..w |-> IF i <= Len(row) THEN row[i] ELSE Wall]

RECURSIVE MaxLen(_)
\* map.iter().map(|row| row.len()).max().unwrap_or_default()
MaxLen(m) ==
    IF m = <<>> THEN 0
    ELSE LET rest == MaxLen(Tail(m))
         IN IF Len(Head(m)) >= rest THEN Len(Head(m)) ELSE rest

\* main.rs:223-242
validate_start(m, sx, sy) ==
    IF sy < Len(m)
    THEN IF sx < Len(m[sy + 1])
         THEN IF m[sy + 1][sx + 1] = Wall
              THEN Err(<<"StartOnWall">>)
              ELSE Ok(<<>>)
         ELSE Err(<<"StartXOutOfBounds">>)
    ELSE Err(<<"StartYOutOfBounds">>)

\* main.rs:75-103
new(m, sx, sy) ==
    LET h == Len(m)
        w == MaxLen(m)
        padded == [i \in 1..h |-> resize(m[i], w)]
        v == validate_start(padded, sx, sy)
    IN IF h < MinDim \/ w < MinDim THEN Err(<<"TooSmall">>)
       ELSE IF ~v.ok THEN v
       ELSE Ok([map |-> padded, width |-> w, height |-> h,
                start_x |-> sx, start_y |-> sy, visited |-> None])

\* main.rs:105-115
new_from_bool_array(m, sx, sy) ==
    new([i \in 1..Len(m) |-> [j \in 1..Len(m[i]) |-> from_bool(m[i][j])]],
        sx, sy)

\* main.rs:70,72
INPUT_WALL == "X"
INPUT_FLOOR == " "

\* cell_from_char as a bug would have it: the floor character gives a
\* path cell.
cell_from_char_Path(c) ==
    CASE c = INPUT_FLOOR -> Ok(FloorPath)
      [] c = INPUT_WALL -> Ok(Wall)
      [] OTHER -> Err(<<"InvalidCharacter", c>>)

\* main.rs:126-130: one character of a text row
cell_from_char(c) ==
    CASE c = INPUT_FLOOR -> Ok(FloorPlain)
      [] c = INPUT_WALL -> Ok(Wall)
      [] OTHER -> Err(<<"InvalidCharacter", c>>)

RECURSIVE collect(_)
\* collect::<Result<Vec<_>, String>>(): the first Err in order, else all values
collect(rs) ==
    IF rs = <<>> THEN Ok(<<>>)
    ELSE IF ~Head(rs).ok THEN Head(rs)
    ELSE LET rest == collect(Tail(rs))
         IN IF rest.ok THEN Ok(<<Head(rs).val>> \o rest.val) ELSE rest

\* main.rs:117-139
new_from_str_array(rows, sx, sy) ==
    LET grid == collect([i \in 1..Len(rows) |->
                    collect([j \in 1..Len(rows[i]) |-> cell_from_char(rows[i][j])])])
    IN IF ~grid.ok THEN grid ELSE new(grid.val, sx, sy)

RECURSIVE split(_, _)
\* str::split(sep): the pieces between separators; one piece more than
\* there are separators, so "" splits into one empty piece
split(s, sep) ==
    IF s = <<>> THEN << <<>> >>
    ELSE LET rest == split(Tail(s), sep)
         IN IF Head(s) = sep THEN << <<>> >> \o rest
            ELSE << <<Head(s)>> \o Head(rest) >> \o Tail(rest)

\* main.rs:141-144
new_from_str(s, sx, sy) == new_from_str_array(split(s, "\n"), sx, sy)

RECURSIVE concat(_)
concat(lines) ==
    IF lines = <<>> THEN <<>> ELSE Head(lines) \o concat(Tail(lines))

\* main.rs:245-263: the symbols written, row after row, each row ended by "\n"
fmt(m, sx, sy) ==
    concat([r \in 1..Len(m) |->
              [c \in 1..(Len(m[r]) + 1) |->
                 IF c = Len(m[r]) + 1 THEN "\n"
                 ELSE IF c - 1 = sx /\ r - 1 = sy
                      THEN FloorType_as_char(FloorStart)
                      ELSE as_char(m[r][c])]])

\* ----------------------------------------------------------------- solver
\* usize::wrapping_sub
wrapping_sub(a, b) == IF a >= b THEN a - b ELSE (UsizeMax - (b - a)) + 1

\* neighbours as a bug would have it: the cell below is never tried.
neighbours_NoDown(x, y) ==
    << <<wrapping_sub(x, 1), y>>, <<x + 1, y>>,
       <<x, wrapping_sub(y, 1)>>, <<x, wrapping_sub(y, 1)>> >>

\* main.rs:172-177: left, right, up, down
neighbours(x, y) ==
    << <<wrapping_sub(x, 1), y>>, <<x + 1, y>>,
       <<x, wrapping_sub(y, 1)>>, <<x, y + 1>> >>

\* on_edge as a bug would have it: the last row is not an edge.
on_edge_NoBottom(x, y, w, h) == x = 0 \/ x >= w - 1 \/ y = 0

\* on_edge as a bug would have it: column 0 is not an edge.
on_edge_NoLeft(x, y, w, h) == x >= w - 1 \/ y = 0 \/ y >= h - 1

\* main.rs:165
on_edge(x, y, w, h) == x = 0 \/ x >= w - 1 \/ y = 0 \/ y >= h - 1

\* solve_from as a bug would have it: the edge cell is not marked (line 167).
solve_from_NoEdgeMark(m, v, w, h, x, y) ==
    LET cell == Get2(m, x, y)
        vis == IF v = None THEN None ELSE Get2(v[1], x, y)
    IN IF cell = None \/ vis = None
       THEN [kind |-> "Err", map |-> m, visited |-> v]
       ELSE IF cell[1] = Wall \/ vis[1]
       THEN [kind |-> "False", map |-> m, visited |-> v]
       ELSE [kind |-> IF on_edge(x, y, w, h) THEN "True" ELSE "Loop",
             map |-> m, visited |-> Some(Set2(v[1], x, y, TRUE))]

\* solve_from as a bug would have it: the cell is marked as it is entered,
\* not when a neighbour has returned true.
solve_from_MarkEarly(m, v, w, h, x, y) ==
    LET cell == Get2(m, x, y)
        vis == IF v = None THEN None ELSE Get2(v[1], x, y)
    IN IF cell = None \/ vis = None
       THEN [kind |-> "Err", map |-> m, visited |-> v]
       ELSE IF cell[1] = Wall \/ vis[1]
       THEN [kind |-> "False", map |-> m, visited |-> v]
       ELSE [kind |-> IF on_edge(x, y, w, h) THEN "True" ELSE "Loop",
             map |-> Set2(m, x, y, FloorPath),
             visited |-> Some(Set2(v[1], x, y, TRUE))]

\* solve_from as a bug would have it: the visited flag is never set
\* (line 163).
solve_from_NoVisitedMark(m, v, w, h, x, y) ==
    LET cell == Get2(m, x, y)
        vis == IF v = None THEN None ELSE Get2(v[1], x, y)
    IN IF cell = None \/ vis = None
       THEN [kind |-> "Err", map |-> m, visited |-> v]
       ELSE IF cell[1] = Wall \/ vis[1]
       THEN [kind |-> "False", map |-> m, visited |-> v]
       ELSE IF on_edge(x, y, w, h)
       THEN [kind |-> "True", map |-> Set2(m, x, y, FloorPath), visited |-> v]
       ELSE [kind |-> "Loop", map |-> m, visited |-> v]

\* main.rs:147-169 and 190-192: a call of solve_from up to its for loop.
\* kind is "Err" (line 191), "False" (lines 155, 160), "True" (line 168)
\* or "Loop" (the call goes on to try its neighbours).
solve_from(m, v, w, h, x, y) ==
    LET cell == Get2(m, x, y)
        vis == IF v = None THEN None ELSE Get2(v[1], x, y)
    IN IF cell = None \/ vis = None
       THEN [kind |-> "Err", map |-> m, visited |-> v]
       ELSE IF cell[1] = Wall
       THEN [kind |-> "False", map |-> m, visited |-> v]
       ELSE IF vis[1]
       THEN [kind |-> "False", map |-> m, visited |-> v]
       ELSE LET v2 == Some(Set2(v[1], x, y, TRUE))
            IN IF on_edge(x, y, w, h)
               THEN [kind |-> "True", map |-> Set2(m, x, y, FloorPath),
                     visited |-> v2]
               ELSE [kind |-> "Loop", map |-> m, visited |-> v2]

\* mark_path as a bug would have it: the cell is left as it is.
mark_path_Skip(m, x, y) ==
    IF Get2(m, x, y) # None THEN Ok(m) ELSE Err(<<"OutOfBounds">>)

\* main.rs:181-186: the cell of a call whose neighbour returned true
mark_path(m, x, y) ==
    IF Get2(m, x, y) # None THEN Ok(Set2(m, x, y, FloorPath))
    ELSE Err(<<"OutOfBounds">>)

Cells(w, h) == (0..(w - 1)) \X (0..(h - 1))

Top == stack[Len(stack)]
Pop == SubSeq(stack, 1, Len(stack) - 1)
Chain(stk) == [i \in 1..Len(stk) |-> <<stk[i].x, stk[i].y>>]

\* A value (b is "True" or "False") returned to the caller of the call that
\* has just ended: to the call below on the stack, or out of solve().
Return(stk, b) ==
    /\ stack' = stk
    /\ IF stk = <<>>
       THEN pc' = "ready" /\ ret' = "None"
            /\ result' = (IF b = "True" THEN "true" ELSE "false")
       ELSE pc' = "solve_from" /\ ret' = b /\ result' = "none"

\* An Err leaves every active call through its ? operator (line 178).
Abort ==
    /\ stack' = <<>>
    /\ pc' = "ready"
    /\ ret' = "None"
    /\ result' = "OutOfBounds"

\* A call solve_from(x, y) made with the visited mask v from under the calls stk.
Invoke(x, y, v, stk, pss) ==
    LET e == solve_from(map, v, width, height, x, y)
    IN /\ map' = e.map
       /\ visited' = e.visited
       /\ passes' = IF e.kind \in {"True", "Loop"}
                    THEN [pss EXCEPT ![<<x, y>>] = @ + 1]
                    ELSE pss
       /\ route' = IF e.kind = "True" THEN Chain(stk) \o << <<x, y>> >>
                   ELSE IF stk = <<>> THEN <<>> ELSE route
       /\ CASE e.kind = "Err" -> Abort
            [] e.kind = "Loop" ->
                 /\ stack' = Append(stk, [x |-> x, y |-> y, i |-> 0])
                 /\ pc' = "solve_from"
                 /\ ret' = "None"
                 /\ result' = "none"
            [] OTHER -> Return(stk, e.kind)

\* main.rs:266-269
solve ==
    /\ alive
    /\ pc = "ready"
    /\ pre' = [map |-> map, width |-> width, height |-> height,
               start_x |-> start_x, start_y |-> start_y]
    /\ Invoke(start_x, start_y,
              Some([r \in 1..height |-> [c \in 1..width |-> FALSE]]),
              <<>>, [c \in Cells(width, height) |-> 0])
    /\ UNCHANGED <<width, height, start_x, start_y, alive, status, ctor>>

\* main.rs:172-178: the top call tries its next neighbour
Call ==
    /\ alive
    /\ pc = "solve_from"
    /\ ret = "None"
    /\ Top.i < 4
    /\ LET n == neighbours(Top.x, Top.y)[Top.i + 1]
       IN Invoke(n[1], n[2], visited, stack, passes)
    /\ UNCHANGED <<width, height, start_x, start_y, alive, status, ctor, pre>>

\* main.rs:178-188: the neighbour's call has returned
Resume ==
    /\ alive
    /\ pc = "solve_from"
    /\ ret # "None"
    /\ IF ret = "True"
       THEN LET m == mark_path(map, Top.x, Top.y)
            IN IF m.ok
               THEN map' = m.val /\ Return(Pop, "True")
               ELSE map' = map /\ Abort
       ELSE /\ stack' = [stack EXCEPT ![Len(stack)].i = @ + 1]
            /\ ret' = "None"
            /\ UNCHANGED <<map, pc, result>>
    /\ UNCHANGED <<width, height, start_x, start_y, visited, alive, status,
                   ctor, pre, route, passes>>

\* main.rs:189: no neighbour is left
LoopEnd ==
    /\ alive
    /\ pc = "solve_from"
    /\ ret = "None"
    /\ Top.i = 4
    /\ Return(Pop, "False")
    /\ UNCHANGED <<map, width, height, start_x, start_y, visited, alive,
                   status, ctor, pre, route, passes>>

\* main.rs:216-221.  self is taken by value: on Err the ? operator returns
\* the error alone and self is dropped, so the caller owns no Maze any more.
set_start ==
    /\ alive
    /\ pc = "ready"
    /\ \E x \in 0..width, y \in 0..height :
         LET v == validate_start(map, x, y)
         IN IF v.ok
            THEN /\ start_x' = x
                 /\ start_y' = y
                 /\ status' = <<"Ok">>
                 /\ alive' = alive
                 /\ pre' = [pre EXCEPT !.map = map, !.start_x = x, !.start_y = y]
                 /\ route' = <<>>
                 /\ passes' = [c \in Cells(width, height) |-> 0]
            ELSE /\ status' = v.err
                 /\ alive' = FALSE
                 /\ UNCHANGED <<start_x, start_y, pre, route, passes>>
    /\ result' = "none"
    /\ UNCHANGED <<map, width, height, visited, ctor, stack, ret, pc>>

Next == solve \/ Call \/ Resume \/ LoopEnd \/ set_start

\* ------------------------------------------------------------ construction
\* The state after a constructor returned r.
Constructed(kind, r) ==
    /\ ctor = kind
    /\ alive = r.ok
    /\ status = (IF r.ok THEN <<"Ok">> ELSE r.err)
    /\ map = (IF r.ok THEN r.val.map ELSE <<>>)
    /\ width = (IF r.ok THEN r.val.width ELSE 0)
    /\ height = (IF r.ok THEN r.val.height ELSE 0)
    /\ start_x = (IF r.ok THEN r.val.start_x ELSE 0)
    /\ start_y = (IF r.ok THEN r.val.start_y ELSE 0)
    /\ visited = (IF r.ok THEN r.val.visited ELSE None)
    /\ stack = <<>>
    /\ ret = "None"
    /\ pc = "ready"
    /\ result = "none"
    /\ pre = [map |-> map, width |-> width, height |-> height,
              start_x |-> start_x, start_y |-> start_y]
    /\ route = <<>>
    /\ passes = [c \in Cells(width, height) |-> 0]

\* The w x h matrix of booleans that is true exactly on the cells of F.
BoolMatrix(w, h, F) ==
    [r \in 1..h |-> [c \in 1..w |-> <<c - 1, r - 1>> \in F]]

\* Rectangular matrices of booleans within the bounds, any start coordinate
\* up to one past the last column and row.
Init ==
    \E w \in MinDim..MaxWidth, h \in MinDim..MaxHeight :
      /\ w * h <= MaxCells
      /\ \E F \in SUBSET Cells(w, h) :
           /\ Cardinality({c \in F : on_edge(c[1], c[2], w, h)}) <= MaxExits
           /\ \E sx \in 0..w, sy \in 0..h :
                LET made == new_from_bool_array(BoolMatrix(w, h, F), sx, sy)
                IN Constructed("new_from_bool_array", made)

RECURSIVE UpTo(_, _)
\* The subsets of S of at most k elements.
UpTo(S, k) ==
    IF k = 0 THEN {{}}
    ELSE LET prev == UpTo(S, k - 1)
         IN prev \cup {T \cup {x} : T \in prev, x \in S}

RECURSIVE join(_, _)
\* The rows with sep between them: the text block that splits into them.
join(rows, sep) ==
    IF Len(rows) = 0 THEN <<>>
    ELSE IF Len(rows) = 1 THEN rows[1]
    ELSE rows[1] \o <<sep>> \o join(Tail(rows), sep)

\* The entries a raw input of each constructor may hold besides the wall.
OpenEntries(kind) ==
    CASE kind = "new" -> {FloorPlain, FloorStart, FloorPath}
      [] kind = "new_from_bool_array" -> {TRUE}
      [] OTHER -> {INPUT_FLOOR, "a"}

WallEntry(kind) ==
    CASE kind = "new" -> Wall
      [] kind = "new_from_bool_array" -> FALSE
      [] OTHER -> INPUT_WALL

\* The raw input with the row lengths lens that holds f[p] at each position
\* p of the domain of f and the wall everywhere else.
RawInput(kind, lens, f) ==
    [i \in 1..Len(lens) |->
        [j \in 1..lens[i] |->
            IF <<i, j>> \in DOMAIN f THEN f[<<i, j>>] ELSE WallEntry(kind)]]

\* What the constructor named kind returns on the raw input rows.
Construct(kind, rows, sx, sy) ==
    CASE kind = "new" -> new(rows, sx, sy)
      [] kind = "new_from_bool_array" -> new_from_bool_array(rows, sx, sy)
      [] kind = "new_from_str_array" -> new_from_str_array(rows, sx, sy)
      [] kind = "new_from_str" -> new_from_str(join(rows, "\n"), sx, sy)

Constructors ==
    {"new", "new_from_bool_array", "new_from_str_array", "new_from_str"}

\* The numbers of rows and the row lengths of the raw inputs: the smallest
\* the constructors accept, and one less.
CtorSizes == (MinDim - 1)..MinDim

\* Every constructor, on the ragged raw inputs of these sizes, any start
\* coordinate up to one past the longest row and the last row.
InitCtor ==
    \E kind \in Constructors, r \in CtorSizes :
      \E lens \in [1..r -> CtorSizes] :
        /\ \E O \in UpTo({<<i, j>> \in (1..r) \X (1..MinDim) : j <= lens[i]},
                         CtorMaxOpen) :
             \E f \in [O -> OpenEntries(kind)] :
               \E sx \in 0..MaxLen(RawInput(kind, lens, f)), sy \in 0..r :
                 LET made == Construct(kind, RawInput(kind, lens, f), sx, sy)
                 IN Constructed(kind, made)

\* main.rs:279-297: the two 3x3 mazes main() builds, before its set_start.
InitMain ==
    \/ Constructed("new_from_bool_array",
           new_from_bool_array(<< <<TRUE, FALSE, TRUE>>,
                                  <<FALSE, TRUE, FALSE>>,
                                  <<TRUE, TRUE, FALSE>> >>, 1, 1))
    \/ Constructed("new_from_str_array",
           new_from_str_array(<< <<" ", "X", " ">>,
                                 <<"X", " ", "X">>,
                                 <<" ", " ", "X">> >>, 1, 1))

Spec == Init /\ [][Next]_vars

SpecCtor == (InitCtor \/ InitMain) /\ [][Next]_vars

SolveStep == Call \/ Resume \/ LoopEnd

\* solve() is one synchronous call: once entered it runs until it returns.
SpecFair == Init /\ [][Next]_vars /\ WF_vars(SolveStep)

\* ------------------------------------------------------------- vocabulary
\* solve() has just returned (nothing was called since).
Done == alive /\ pc = "ready" /\ result # "none"

Cell(m, c) == m[c[2] + 1][c[1] + 1]
Start == <<start_x, start_y>>
Grid == Cells(width, height)

\* left/right/up/down neighbours in the grid
Adjacent(c, d) ==
    \/ c[2] = d[2] /\ (c[1] = d[1] + 1 \/ d[1] = c[1] + 1)
    \/ c[1] = d[1] /\ (c[2] = d[2] + 1 \/ d[2] = c[2] + 1)

OuterEdge(c) ==
    c[1] = 0 \/ c[1] = width - 1 \/ c[2] = 0 \/ c[2] = height - 1

RECURSIVE Reach(_)
\* The cells joined to a cell of S by 4-adjacent cells that are not walls.
Reach(S) ==
    LET more == {c \in Grid \ S :
                    Cell(map, c) # Wall /\ \E d \in S : Adjacent(c, d)}
    IN IF more = {} THEN S ELSE Reach(S \cup more)

PathCells(m) == {c \in Grid : Cell(m, c) = FloorPath}
VisitedCells == IF visited = None THEN {}
                ELSE {c \in Grid : Cell(visited[1], c)}

RECURSIVE ChainFrom(_, _)
\* The cells of S can be put in a row that starts with c, uses each cell
\* once, steps only between 4-adjacent cells that are not walls, and ends
\* on the outer edge.
ChainFrom(c, S) ==
    /\ c \in S
    /\ Cell(map, c) # Wall
    /\ IF S = {c} THEN OuterEdge(c)
       ELSE \E d \in S \ {c} : Adjacent(c, d) /\ ChainFrom(d, S \ {c})

\* ------------------------------------------------------------------ claims
\* C1: solve() returns true exactly if some cell of the outer edge can be
\* reached from the start over 4-adjacent cells that are not walls (the
\* start counting as reached), and false otherwise.
C1_SolveIffReachable ==
    Done =>
      /\ result \in {"true", "false"}
      /\ (result = "true") <=> (\E c \in Reach({Start}) : OuterEdge(c))

\* C1 witness: a solve() that returned true over a route of three or more
\* cells after it gave up on some other cell.
C1_Witness ==
    /\ Done
    /\ result = "true"
    /\ Len(route) >= 3
    /\ VisitedCells \ PathCells(map) # {}

\* C2 as claimed: after solve() returned true the start cell has not been
\* changed to Floor(Path), and every other cell of the route is Floor(Path).
C2_StartLeftUnmarked ==
    (Done /\ result = "true") =>
      /\ Cell(map, Start) = FloorPath => Cell(pre.map, Start) = FloorPath
      /\ \A i \in 1..Len(route) :
           route[i] # Start => Cell(map, route[i]) = FloorPath

\* C2 amended: after solve() returned true the route begins at the start
\* cell and every cell of it, the start cell included, is Floor(Path).
C2_RouteMarkedWithStart ==
    (Done /\ result = "true") =>
      /\ route # <<>>
      /\ route[1] = Start
      /\ \A i \in 1..Len(route) : Cell(map, route[i]) = FloorPath

\* C2 witness: solve() returned true over a route of two or more cells from
\* a start cell that was plain floor.
C2_Witness ==
    /\ Done
    /\ result = "true"
    /\ Len(route) >= 2
    /\ Cell(pre.map, Start) = FloorPlain

\* C3 as claimed: after solve() returned true on a grid without path cells,
\* the path cells form one chain that begins at a neighbour of the start
\* and ends on the outer edge.
C3_ChainFromNeighbour ==
    (Done /\ result = "true" /\ PathCells(pre.map) = {}) =>
      \E c \in PathCells(map) :
        Adjacent(c, Start) /\ ChainFrom(c, PathCells(map))

\* C3 amended: after solve() returned true on a grid without path cells,
\* the path cells form one chain of 4-adjacent cells that are not walls,
\* without a repeated cell, that begins at the start cell itself and ends on
\* the outer edge; no cell off that chain is a path cell.
C3_ChainFromStart ==
    (Done /\ result = "true" /\ PathCells(pre.map) = {}) =>
      ChainFrom(Start, PathCells(map))

\* C3 witness: such a solve() that marked three or more cells and left a
\* cell it had visited unmarked.
C3_Witness ==
    /\ Done
    /\ result = "true"
    /\ PathCells(pre.map) = {}
    /\ Cardinality(PathCells(map)) >= 3
    /\ VisitedCells \ PathCells(map) # {}

\* C4: while the caller owns a Maze, every row has width cells, height is
\* the number of rows, both are at least 3, the start lies inside the grid
\* and the start cell is not a wall.
C4_GridInvariant ==
    alive =>
      /\ Len(map) = height
      /\ \A r \in 1..Len(map) : Len(map[r]) = width
      /\ width >= MinDim
      /\ height >= MinDim
      /\ start_x < width
      /\ start_y < height
      /\ Cell(map, Start) # Wall

\* C4 witness: a Maze with a row that ends in a wall, after a solve() that
\* marked cells and a set_start that moved the start off the marked cells.
C4_Witness ==
    /\ alive
    /\ pc = "ready"
    /\ result = "none"
    /\ visited # None
    /\ PathCells(map) # {}
    /\ Start \notin PathCells(map)
    /\ \E r \in 1..height : map[r][width] = Wall

\* C5: solve() never returns the out-of-bounds error: the start it searches
\* from lies inside the grid, every active call has all four of its
\* neighbours inside the grid, and no active call is at column 0 or row 0,
\* where the decrement would wrap.
C5_NeverOutOfBounds ==
    alive =>
      /\ result # "OutOfBounds"
      /\ start_x < width
      /\ start_y < height
      /\ \A i \in 1..Len(stack) :
           /\ stack[i].x >= 1
           /\ stack[i].y >= 1
           /\ \A k \in 1..4 :
                /\ neighbours(stack[i].x, stack[i].y)[k][1] < width
                /\ neighbours(stack[i].x, stack[i].y)[k][2] < height

\* C5 witness: a call at (1, 1) that has tried its left and upper
\* neighbours, in a grid that an earlier solve() has marked.
C5_Witness ==
    /\ pc = "solve_from"
    /\ stack # <<>>
    /\ Top.x = 1
    /\ Top.y = 1
    /\ Top.i >= 3
    /\ PathCells(pre.map) # {}

\* Within one solve() every cell passes the visited check at most once and
\* the calls are at most width * height deep (the active calls in their
\* loops and the one being made).
BoundedSearch ==
    alive =>
      /\ \A c \in Grid : passes[c] <= 1
      /\ Len(stack) + 1 <= width * height

\* A step inside solve() takes no cell out of the visited mask.
VisitedGrows == (pc = "solve_from") => (VisitedCells \subseteq VisitedCells')

\* C6: every solve() returns, on layouts with cycles too: inside a call the
\* visited cells only grow, no cell passes the visited check twice, and the
\* depth of the recursion stays within width * height.
C6_SolveTerminates ==
    /\ []BoundedSearch
    /\ [][VisitedGrows]_vars
    /\ (pc = "solve_from") ~> (pc = "ready" /\ result \in {"true", "false"})

\* C6 witness: a solve() that has returned after visiting all four cells of
\* a 2 x 2 block of floor, a cycle.
C6_Witness ==
    /\ Done
    /\ \E c \in Grid :
         {c, <<c[1] + 1, c[2]>>, <<c[1], c[2] + 1>>, <<c[1] + 1, c[2] + 1>>}
            \subseteq VisitedCells

\* C7 as claimed: a set_start on a wall cell fails with StartOnWall, leaves
\* the start coordinates and the cells as they were, and the Maze stays with
\* the caller, usable with its previous start.
C7_FailedSetStartKeepsMaze ==
    [][(alive /\ status' = <<"StartOnWall">>) =>
          /\ alive'
          /\ start_x' = start_x
          /\ start_y' = start_y
          /\ map' = map]_vars

\* The symbols of the rendering.
Rendered == {fmt(map, start_x, start_y)[i] :
                i \in 1..Len(fmt(map, start_x, start_y))}

\* A Maze on which solve() has not been called.
Unsolved == alive /\ visited = None

\* C8 as claimed: whatever constructor built it, the rendering of a Maze on
\* which solve() has not been called holds no path symbol.
C8_NoPathSymbolAnyConstructor ==
    Unsolved => FloorType_as_char(FloorPath) \notin Rendered

\* C8 amended: the rendering of a Maze built from a boolean matrix, from
\* text rows or from a text block, on which solve() has not been called,
\* holds no path symbol.  (The cell matrix constructor keeps a Floor(Path)
\* cell of its input, which is rendered as the path symbol.)
C8_NoPathSymbolFromBoolOrText ==
    (Unsolved /\ ctor # "new") => FloorType_as_char(FloorPath) \notin Rendered

\* C8 witness: an unsolved Maze built from a text block whose rendering
\* shows a floor cell besides the start.
C8_Witness ==
    /\ Unsolved
    /\ ctor = "new_from_str"
    /\ FloorType_as_char(FloorPlain) \in Rendered

\* Scenario C: the text rows " X ", "X X", "  X" with the start (1, 1).
ScenarioC ==
    new_from_str_array(<< <<" ", "X", " ">>,
                          <<"X", " ", "X">>,
                          <<" ", " ", "X">> >>, 1, 1)

\* solve() has just returned on the Maze of scenario C.
ScenarioCSolved ==
    /\ Done
    /\ ctor = "new_from_str_array"
    /\ pre.map = ScenarioC.val.map
    /\ pre.start_x = 1
    /\ pre.start_y = 1

\* C9 as claimed: scenario C constructs, and solve() from (1, 1) returns
\* false.
C9_ScenarioCFalse ==
    /\ ScenarioC.ok
    /\ ScenarioCSolved => result = "false"

\* C9 amended: scenario C constructs, and solve() from (1, 1) returns true:
\* the cell below the start, (1, 2), is floor and lies on the last row, and
\* it and the start cell become Floor(Path).
C9_ScenarioCTrue ==
    /\ ScenarioC.ok
    /\ ScenarioCSolved =>
         /\ result = "true"
         /\ PathCells(map) = {<<1, 1>>, <<1, 2>>}

\* C9 witness: solve() has returned on the Maze of scenario C.
C9_Witness == ScenarioCSolved /\ result = "true"

\* C10: when solve() returns false, every cell, the width, the height and
\* the start are as they were when it was called.
C10_FalseChangesNothing ==
    (Done /\ result = "false") =>
      /\ map = pre.map
      /\ width = pre.width
      /\ height = pre.height
      /\ start_x = pre.start_x
      /\ start_y = pre.start_y

\* C10 witness: solve() returned false after it visited three or more cells.
C10_Witness ==
    /\ Done
    /\ result = "false"
    /\ Cardinality(VisitedCells) >= 3

====
